---- MODULE Spec2Model ----
(***************************************************************************)
(* rio stack (rasterio/rio/bands.py): the band-selection parser, the       *)
(* layout planner and the copy loop of the `stack` command, as a state     *)
(* machine.  A selection expression is a sequence of one-character         *)
(* strings; a path names a dataset, and the dataset named p has p bands,   *)
(* band b of it holding the content <<p, b>>.                              *)
(***************************************************************************)
EXTENDS Integers, Sequences, FiniteSets, TLC

\* Bounds of the model.
MaxInputs == 2
MaxBidx == 2
MaxBands == 3
MaxLen == 4

VARIABLES
    input,          \* the INPUT arguments: a non-empty sequence of paths
    bidx,           \* the --bidx options: a sequence of selection expressions
    pc,             \* "resolve" | "open" | "copy" | "done"
    indexes,        \* the plan: one resolved selection per pair processed
    output_count,   \* the running total of bands contributed
    kwargs,         \* the metadata the output is opened with
    dst,            \* the output dataset
    dst_idx,        \* the destination cursor
    written,        \* per copied entry, the destination bands given to dst.write
    exit_code,      \* -1 while running, then the code passed to sys.exit
    error           \* "none", or the kind of the exception that was raised

vars == <<input, bidx, pc, indexes, output_count, kwargs, dst, dst_idx,
          written, exit_code, error>>

----------------------------------------------------------------------------
\* Characters and strings.

Digits == <<"0", "1", "2", "3", "4", "5", "6", "7", "8", "9">>
DigitSet == {Digits[d] : d \in 1..Len(Digits)}
DigitVal(c) == (CHOOSE d \in 1..Len(Digits) : Digits[d] = c) - 1
Alphabet == {"0", "1", "2", ".", ",", "-"}
DotDot == <<".", ".">>
Comma == <<",">>

\* The fillvalue of zip_longest, on the expression side and on the path side.
None == <<"None">>
NoPath == 0

\* sep in s
Contains(s, sep) ==
    \E p \in 1..(Len(s) - Len(sep) + 1) : SubSeq(s, p, p + Len(sep) - 1) = sep

\* s.split(sep): cut at the leftmost occurrence, then split the rest.
RECURSIVE split(_, _)
split(s, sep) ==
    IF Contains(s, sep)
    THEN LET p == CHOOSE q \in 1..(Len(s) - Len(sep) + 1) :
                    /\ SubSeq(s, q, q + Len(sep) - 1) = sep
                    /\ \A r \in 1..(q - 1) : SubSeq(s, r, r + Len(sep) - 1) # sep
         IN <<SubSeq(s, 1, p - 1)>> \o split(SubSeq(s, p + Len(sep), Len(s)), sep)
    ELSE <<s>>

\* int(t) raises ValueError unless t is an optional sign followed by digits.
IsInt(t) ==
    /\ Len(t) >= 1
    /\ LET body == IF t[1] = "-" THEN Tail(t) ELSE t
       IN /\ Len(body) >= 1
          /\ \A k \in 1..Len(body) : body[k] \in DigitSet

RECURSIVE Decimal(_)
Decimal(body) ==
    IF body = <<>> THEN 0
    ELSE 10 * Decimal(SubSeq(body, 1, Len(body) - 1)) + DigitVal(body[Len(body)])

int(t) == IF t[1] = "-" THEN 0 - Decimal(Tail(t)) ELSE Decimal(t)

\* seq[slice(start, stop)]; stop is <<>> for None, <<n>> for the integer n.
getslice(seq, start, stop) ==
    LET len == Len(seq)
        clamp(x) == IF x < 0 THEN (IF x + len < 0 THEN 0 ELSE x + len)
                    ELSE IF x > len THEN len ELSE x
        lo == clamp(start)
        hi == IF stop = <<>> THEN len ELSE clamp(stop[1])
    IN IF lo < hi THEN SubSeq(seq, lo + 1, hi) ELSE <<>>

----------------------------------------------------------------------------
\* The datasets.

Paths == 1..MaxBands
count(path) == path
src_indexes(path) == [b \in 1..count(path) |-> b]
band_exists(path, b) == b \in 1..count(path)

----------------------------------------------------------------------------
\* Pairing.

Max(a, b) == IF a >= b THEN a ELSE b
Min(a, b) == IF a <= b THEN a ELSE b

\* zip_longest written as the truncating zip.
zip_truncating(paths, items) ==
    [k \in 1..Min(Len(paths), Len(items)) |-> [path |-> paths[k], item |-> items[k]]]

zip_longest(paths, items) ==
    [k \in 1..Max(Len(paths), Len(items)) |->
        [path |-> IF k <= Len(paths) THEN paths[k] ELSE NoPath,
         item |-> IF k <= Len(items) THEN items[k] ELSE None]]

zip(paths, plan) ==
    [k \in 1..Min(Len(paths), Len(plan)) |-> [path |-> paths[k], index |-> plan[k]]]

----------------------------------------------------------------------------
\* Resolving one selection expression.

IntIndex(n) == [type |-> "int", v |-> <<n>>]
ListIndex(s) == [type |-> "list", v |-> s]

RangeRaises(item) ==
    LET p == split(item, DotDot)
    IN \/ \E k \in 1..Len(p) : p[k] # <<>> /\ ~IsInt(p[k])
       \/ Len(p) # 2

ListRaises(item) ==
    LET p == split(item, Comma)
    IN \E k \in 1..Len(p) : ~IsInt(p[k])

Raises(item) ==
    IF item = None THEN FALSE
    ELSE IF Contains(item, DotDot) THEN RangeRaises(item)
    ELSE ListRaises(item)

RangeStart(item) ==
    LET p == split(item, DotDot) IN IF p[1] = <<>> THEN 1 ELSE int(p[1])

RangeStop(item) ==
    LET p == split(item, DotDot) IN IF p[2] = <<>> THEN <<>> ELSE <<int(p[2])>>

\* The range taken without the shift to a 0-based start.
RangeIndexUnshifted(item, src) == getslice(src, RangeStart(item), RangeStop(item))

\* The range taken as the integers start..stop, whatever bands the input has.
RangeIndexUnclamped(item, src) ==
    LET start == RangeStart(item)
        stop == IF RangeStop(item) = <<>> THEN Len(src) ELSE RangeStop(item)[1]
    IN [k \in 1..(stop - start + 1) |-> start + k - 1]

\* The count taken from the whole input instead of the slice.
RangeCountAll(item, src) == Len(src)

RangeIndex(item, src) == getslice(src, RangeStart(item) - 1, RangeStop(item))
RangeCount(item, src) == Len(getslice(src, RangeStart(item) - 1, RangeStop(item)))

\* The list deduplicated and sorted.
ListPartsSorted(item) ==
    LET p == split(item, Comma)
        S == {int(p[k]) : k \in 1..Len(p)}
    IN CHOOSE q \in [1..Cardinality(S) -> S] :
           \A a, b \in 1..Cardinality(S) : a < b => q[a] < q[b]

ListParts(item) ==
    LET p == split(item, Comma) IN [k \in 1..Len(p) |-> int(p[k])]

Resolved(item, src) ==
    IF item = None
    THEN [index |-> ListIndex(src), count |-> Len(src)]
    ELSE IF Contains(item, DotDot)
    THEN [index |-> ListIndex(RangeIndex(item, src)), count |-> RangeCount(item, src)]
    ELSE LET parts == ListParts(item)
         IN IF Len(parts) = 1
            THEN [index |-> IntIndex(parts[1]), count |-> 1]
            ELSE [index |-> ListIndex(parts), count |-> Len(parts)]

----------------------------------------------------------------------------
\* The initial states: the arguments of one invocation.

SeqsOf(S, lo, hi) == UNION {[1..n -> S] : n \in lo..hi}
Strings == SeqsOf(Alphabet, 0, MaxLen)

Str(n) == <<Digits[n + 1]>>
RangeExpr(m, o) == Str(m) \o DotDot \o Str(o)
RECURSIVE ListExpr(_)
ListExpr(n) == IF n = 1 THEN Str(1) ELSE ListExpr(n - 1) \o Comma \o Str(n)

\* Expressions of every form, for the invocations with several inputs.
Exprs ==
    { Str(2), ListExpr(2), <<"2", ",", "1", ",", "2">>,
      RangeExpr(1, 2), RangeExpr(2, 1), DotDot \o Str(1), Str(2) \o DotDot,
      <<>> }

Fresh ==
    /\ pc = "resolve"
    /\ indexes = <<>>
    /\ output_count = 0
    /\ kwargs = [template |-> NoPath, count |-> 0]
    /\ dst = [opened |-> FALSE, count |-> 0, bands |-> <<>>]
    /\ dst_idx = 0
    /\ written = <<>>
    /\ exit_code = -1
    /\ error = "none"

\* One input with one expression, any string over the alphabet.
InitAny == input \in SeqsOf(Paths, 1, 1) /\ bidx \in SeqsOf(Strings, 1, 1)

\* Several inputs, each a single-band or a MaxBands-band dataset, with fewer, as
\* many or more expressions, of mixed forms.
InitMixed ==
    /\ input \in SeqsOf({1, MaxBands}, 1, MaxInputs)
    /\ bidx \in SeqsOf(Exprs, 0, MaxBidx)

\* The invocations of the docstring's examples, for every band count.
InitExamples ==
    \E p \in Paths :
        \/ input = <<p>> /\ bidx = <<>>
        \/ input = <<p>> /\ bidx = <<ListExpr(p)>>
        \/ input = <<p>> /\ bidx = <<RangeExpr(1, p)>>
        \/ \E k \in 1..(p - 1) :
              input = <<p, p>> /\ bidx = <<DotDot \o Str(k), Str(k + 1) \o DotDot>>

Init == (InitAny \/ InitMixed \/ InitExamples) /\ Fresh

----------------------------------------------------------------------------
\* The steps of stack.

Pairs == zip_longest(input, bidx)
CopyPairs == zip(input, indexes)

\* The handler leaving with the success code.
FailedExitZero(kind) ==
    /\ pc' = "done"
    /\ exit_code' = 0
    /\ error' = kind
    /\ UNCHANGED <<input, bidx, indexes, output_count, kwargs, dst, dst_idx, written>>

\* except Exception: logger.exception(...); sys.exit(1)
Failed(kind) ==
    /\ pc' = "done"
    /\ exit_code' = 1
    /\ error' = kind
    /\ UNCHANGED <<input, bidx, indexes, output_count, kwargs, dst, dst_idx, written>>

\* One iteration of the first loop: probe the input, resolve its expression.
ResolveNext ==
    /\ pc = "resolve"
    /\ Len(indexes) < Len(Pairs)
    /\ LET p == Pairs[Len(indexes) + 1]
       IN /\ p.path # NoPath
          /\ ~Raises(p.item)
          /\ LET r == Resolved(p.item, src_indexes(p.path))
             IN /\ indexes' = Append(indexes, r.index)
                /\ output_count' = output_count + r.count
    /\ UNCHANGED <<input, bidx, pc, kwargs, dst, dst_idx, written, exit_code, error>>

\* An iteration of the first loop that raises: no path to open, or int() or the
\* unpacking of the split raises ValueError.
ResolveRaise ==
    /\ pc = "resolve"
    /\ Len(indexes) < Len(Pairs)
    /\ LET p == Pairs[Len(indexes) + 1]
       IN \/ p.path = NoPath /\ Failed("io")
          \/ p.path # NoPath /\ Raises(p.item) /\ Failed("syntax")

\* The first loop left before every pair was resolved.
ReadTemplateEarly ==
    /\ pc = "resolve"
    /\ kwargs' = [template |-> input[1], count |-> output_count]
    /\ pc' = "open"
    /\ UNCHANGED <<input, bidx, indexes, output_count, dst, dst_idx, written,
                   exit_code, error>>

\* After the loop: the first input's metadata, with the count overridden.
ReadTemplate ==
    /\ pc = "resolve"
    /\ Len(indexes) = Len(Pairs)
    /\ kwargs' = [template |-> input[1], count |-> output_count]
    /\ pc' = "open"
    /\ UNCHANGED <<input, bidx, indexes, output_count, dst, dst_idx, written,
                   exit_code, error>>

\* rasterio.open(output, 'w', **kwargs); dst_idx = 1
OpenOutput ==
    /\ pc = "open"
    /\ dst' = [opened |-> TRUE, count |-> kwargs.count,
               bands |-> [b \in 1..kwargs.count |-> <<>>]]
    /\ dst_idx' = 1
    /\ pc' = "copy"
    /\ UNCHANGED <<input, bidx, indexes, output_count, kwargs, written,
                   exit_code, error>>

\* The destination bands counted from 1 for every entry.
TargetsFromOne(index, cursor) ==
    IF index.type = "int" THEN <<1>>
    ELSE [k \in 1..Len(index.v) |-> k]

\* The cursor advanced by one band whatever the entry holds.
AdvanceByOne(index, cursor) == cursor + 1

\* The destination bands of one entry, and the cursor after it.
Targets(index, cursor) ==
    IF index.type = "int" THEN <<cursor>>
    ELSE [k \in 1..Len(index.v) |-> cursor + k - 1]

Advance(index, cursor) ==
    IF index.type = "int" THEN cursor + 1 ELSE cursor + Len(index.v)

ReadOk(path, index) == \A k \in 1..Len(index.v) : band_exists(path, index.v[k])
WriteOk(targets) == \A k \in 1..Len(targets) : targets[k] \in 1..dst.count

\* One iteration of the copy loop: read the entry's bands, write them at the cursor.
CopyNext ==
    /\ pc = "copy"
    /\ Len(written) < Len(CopyPairs)
    /\ LET e == CopyPairs[Len(written) + 1]
           t == Targets(e.index, dst_idx)
       IN /\ ReadOk(e.path, e.index)
          /\ WriteOk(t)
          /\ dst' = [dst EXCEPT !.bands =
                        [b \in 1..dst.count |->
                            IF \E k \in 1..Len(t) : t[k] = b
                            THEN LET k == CHOOSE k \in 1..Len(t) :
                                            t[k] = b /\ \A m \in (k + 1)..Len(t) : t[m] # b
                                 IN <<e.path, e.index.v[k]>>
                            ELSE @[b]]]
          /\ dst_idx' = Advance(e.index, dst_idx)
          /\ written' = Append(written, t)
    /\ UNCHANGED <<input, bidx, pc, indexes, output_count, kwargs, exit_code, error>>

\* An iteration of the copy loop whose read or write is given a band that does
\* not exist.
CopyRaise ==
    /\ pc = "copy"
    /\ Len(written) < Len(CopyPairs)
    /\ LET e == CopyPairs[Len(written) + 1]
       IN ~(ReadOk(e.path, e.index) /\ WriteOk(Targets(e.index, dst_idx)))
    /\ Failed("index")

\* Any call of the raster library may fail: an unreadable input, an output that
\* cannot be created or written.
IOFailure ==
    /\ \/ pc = "resolve" /\ Len(indexes) < Len(Pairs) /\ Pairs[Len(indexes) + 1].path # NoPath
       \/ pc = "resolve" /\ Len(indexes) = Len(Pairs)
       \/ pc = "open"
       \/ pc = "copy" /\ Len(written) < Len(CopyPairs)
    /\ Failed("io")

\* sys.exit(0)
Exit ==
    /\ pc = "copy"
    /\ Len(written) = Len(CopyPairs)
    /\ pc' = "done"
    /\ exit_code' = 0
    /\ UNCHANGED <<input, bidx, indexes, output_count, kwargs, dst, dst_idx,
                   written, error>>

Next ==
    \/ ResolveNext
    \/ ResolveRaise
    \/ ReadTemplate
    \/ OpenOutput
    \/ CopyNext
    \/ CopyRaise
    \/ IOFailure
    \/ Exit

Spec == Init /\ [][Next]_vars

----------------------------------------------------------------------------
\* What the claims are stated with.

Contribution(index) == IF index.type = "int" THEN 1 ELSE Len(index.v)

RECURSIVE TotalLen(_)
TotalLen(plan) ==
    IF plan = <<>> THEN 0
    ELSE TotalLen(SubSeq(plan, 1, Len(plan) - 1)) + Contribution(plan[Len(plan)])

Interval(a, b) == [k \in 1..(b - a + 1) |-> a + k - 1]
Succeeded == pc = "done" /\ exit_code = 0

\* The expressions paired with an input and already resolved.
ResolvedItems == 1..Min(Len(indexes), Len(bidx))

\* C1: the k-th plan entry copied is written to exactly the bands
\* cursor .. cursor+len-1, where cursor is 1 plus the total length of the earlier
\* entries; no destination band is written twice, none is skipped, and a run that
\* ends the copy phase has written every entry.
C1_Contiguous ==
    /\ \A k \in 1..Len(written) :
          written[k] = Interval(1 + TotalLen(SubSeq(indexes, 1, k - 1)),
                                TotalLen(SubSeq(indexes, 1, k)))
    /\ \A k, l \in 1..Len(written) : \A m \in 1..Len(written[k]), n \in 1..Len(written[l]) :
          written[k][m] = written[l][n] => k = l /\ m = n
    /\ UNION {{written[k][m] : m \in 1..Len(written[k])} : k \in 1..Len(written)}
          = 1..(dst_idx - 1)
    /\ Succeeded => Len(written) = Len(indexes)

C1_Witness ==
    /\ Succeeded
    /\ Len(indexes) = 2
    /\ indexes[1].type = "int"
    /\ indexes[2].type = "list"
    /\ Len(indexes[2].v) >= 2
    /\ written[2] = <<2, 3, 4>>

\* C2: the sum of the band counts contributed by the plan entries equals the
\* running total, the count the output is declared with and opened with, and,
\* when the copy phase ends, the number of destination bands written.
C2_CountMatches ==
    /\ output_count = TotalLen(indexes)
    /\ kwargs.template # NoPath => kwargs.count = TotalLen(indexes)
    /\ dst.opened => dst.count = TotalLen(indexes)
    /\ Succeeded => dst_idx - 1 = dst.count

C2_Witness ==
    /\ Succeeded
    /\ Len(indexes) = 2
    /\ indexes[1].type = "list"
    /\ Len(bidx) >= 1
    /\ Contains(bidx[1], DotDot)
    /\ dst.count = 3
    /\ dst_idx = 4

\* C3: a valid range expression "M..O" (1 <= M <= O <= N) resolves to exactly
\* M, M+1, ..., O and contributes O-M+1; "..O" resolves as "1..O" does and "M.."
\* as "M..N" does.
C3_RangeInclusive ==
    \A k \in ResolvedItems : \A M, O \in 1..count(input[k]) :
        /\ (M <= O /\ bidx[k] = RangeExpr(M, O)) =>
              /\ indexes[k] = ListIndex(Interval(M, O))
              /\ Len(indexes) = 1 => output_count = O - M + 1
        /\ bidx[k] = DotDot \o Str(O) =>
              /\ indexes[k] = ListIndex(Interval(1, O))
              /\ Len(indexes) = 1 => output_count = O
        /\ bidx[k] = Str(M) \o DotDot =>
              /\ indexes[k] = ListIndex(Interval(M, count(input[k])))
              /\ Len(indexes) = 1 => output_count = count(input[k]) - M + 1

C3_Witness ==
    /\ Succeeded
    /\ input = <<3>>
    /\ bidx = <<RangeExpr(1, 2)>>
    /\ indexes = <<ListIndex(<<1, 2>>)>>
    /\ dst.bands = <<<<3, 1>>, <<3, 2>>>>

\* C4: a range expression whose start is greater than its stop raises an error:
\* it is never resolved to a plan entry (an empty selection contributing zero
\* bands), so no write with zero bands is reached for it.
C4_ReversedRangeRaises ==
    \A k \in 1..Min(Len(input), Len(bidx)) : \A M, O \in 0..9 :
        (M > O /\ bidx[k] = RangeExpr(M, O)) => Len(indexes) < k

\* The range expressions "M..O" of entry k that leave 1..N.
OutOfRange(k) ==
    \E M, O \in 0..9 :
        /\ bidx[k] = RangeExpr(M, O)
        /\ M <= O
        /\ M < 1 \/ O > count(input[k])

\* C5 as stated: a run given a range expression whose start is below 1 or whose
\* stop is above N (and left with bands to read), and that nothing else stops,
\* ends in the out-of-range band index error of the read.
C5_OutOfRangeFailsAtRead ==
    (pc = "done" /\ error \notin {"io", "syntax"}
        /\ \E k \in ResolvedItems : OutOfRange(k) /\ indexes[k].v # <<>>)
    => (exit_code = 1 /\ error = "index")

\* C5 as amended: no check is made when a range expression is resolved and none
\* is needed later: the range is taken as a slice of the input's band list, so
\* the resolved selection holds only bands 1..N ("M..O" with 1 <= M <= N < O
\* resolves to M..N), and the read of that entry raises no out-of-range error.
C5_RangeIsClamped ==
    \A k \in ResolvedItems :
        Contains(bidx[k], DotDot) =>
            /\ indexes[k].type = "list"
            /\ \A m \in 1..Len(indexes[k].v) : indexes[k].v[m] \in 1..count(input[k])
            /\ \A M \in 1..count(input[k]), O \in 0..9 :
                  (O > count(input[k]) /\ bidx[k] = RangeExpr(M, O)) =>
                      indexes[k] = ListIndex(Interval(M, count(input[k])))
            /\ (error = "index" /\ pc = "done") => Len(written) + 1 # k

C5_Witness ==
    /\ Succeeded
    /\ input = <<1>>
    /\ bidx = <<RangeExpr(1, 2)>>
    /\ indexes = <<ListIndex(<<1>>)>>
    /\ dst.bands = <<<<1, 1>>>>

\* C6: the pairing fills, it does not truncate: an input without a paired
\* expression resolves to the full band list 1..N and contributes N, the output
\* is not opened before every input has its entry, and a run that ends the copy
\* phase has copied every input, the unpaired ones band for band.
C6_FillMissing ==
    /\ \A k \in 1..Len(indexes) :
          k > Len(bidx) =>
              /\ indexes[k] = ListIndex(Interval(1, count(input[k])))
              /\ Contribution(indexes[k]) = count(input[k])
    /\ pc \in {"open", "copy"} => Len(indexes) >= Len(input)
    /\ Succeeded =>
          /\ Len(indexes) = Len(input)
          /\ Len(written) = Len(input)
          /\ \A k \in 1..Len(input) :
                k > Len(bidx) =>
                    /\ Len(written[k]) = count(input[k])
                    /\ \A b \in 1..count(input[k]) :
                          dst.bands[written[k][b]] = <<input[k], b>>

C6_Witness ==
    /\ Succeeded
    /\ Len(input) = 2
    /\ Len(bidx) = 1
    /\ indexes[2] = ListIndex(<<1, 2, 3>>)
    /\ Len(written) = 2

\* The expression of the single-digit integers q, joined with commas.
RECURSIVE Joined(_)
Joined(q) ==
    IF Len(q) = 1 THEN Str(q[1])
    ELSE Joined(SubSeq(q, 1, Len(q) - 1)) \o Comma \o Str(q[Len(q)])

\* C7: a comma-separated list of two or more integers resolves to those integers
\* in token order, duplicates kept and nothing sorted, and contributes its
\* token count.
C7_ListOrderKept ==
    \A k \in ResolvedItems : \A n \in 2..3 : \A q \in [1..n -> 0..3] :
        (Len(bidx[k]) = 2 * n - 1 /\ bidx[k] = Joined(q)) =>
            /\ indexes[k] = ListIndex(q)
            /\ Contribution(indexes[k]) = Len(q)
            /\ Len(indexes) = 1 => output_count = Len(q)

C7_Witness ==
    /\ Succeeded
    /\ Len(bidx) >= 1
    /\ dst.count >= 3
    /\ bidx[1] = <<"2", ",", "1", ",", "2">>
    /\ indexes[1] = ListIndex(<<2, 1, 2>>)
    /\ SubSeq(dst.bands, 1, 3) = <<<<input[1], 2>>, <<input[1], 1>>, <<input[1], 2>>>>

\* The invocations the docstring says produce a copy of the dataset p.
CopyForm(p) ==
    \/ input = <<p>> /\ bidx = <<>>
    \/ input = <<p>> /\ bidx = <<ListExpr(p)>>
    \/ input = <<p>> /\ bidx = <<RangeExpr(1, p)>>
    \/ \E k \in 1..(p - 1) :
          input = <<p, p>> /\ bidx = <<DotDot \o Str(k), Str(k + 1) \o DotDot>>

\* C8: with no selection, with the list "1,2,...,N", with the range "1..N", and
\* with the input given twice with "..k" and "k+1..", a run that succeeds leaves
\* an output of N bands whose band i holds source band i.
C8_EquivalentFormsCopy ==
    \A p \in Paths :
        (Succeeded /\ CopyForm(p)) =>
            /\ dst.count = p
            /\ dst.bands = [i \in 1..p |-> <<p, i>>]

C8_Witness ==
    /\ Succeeded
    /\ input = <<3, 3>>
    /\ bidx = <<DotDot \o Str(2), Str(3) \o DotDot>>
    /\ written = <<<<1, 2>>, <<3>>>>
    /\ dst.bands = <<<<3, 1>>, <<3, 2>>, <<3, 3>>>>

\* The recognized forms, read off the characters: an integer is an optional sign
\* and digits; a range is an optional integer, two dots, an optional integer; a
\* list is one or more integers separated by single commas.
IntAt(s, a, b) ==
    /\ a <= b
    /\ \/ \A i \in a..b : s[i] \in DigitSet
       \/ s[a] = "-" /\ a < b /\ \A i \in (a + 1)..b : s[i] \in DigitSet

RangeForm(s) ==
    \E p \in 1..(Len(s) - 1) :
        /\ s[p] = "." /\ s[p + 1] = "."
        /\ p = 1 \/ IntAt(s, 1, p - 1)
        /\ p + 1 = Len(s) \/ IntAt(s, p + 2, Len(s))

ListForm(s) ==
    LET cuts == {0, Len(s) + 1} \cup {i \in 1..Len(s) : s[i] = ","}
    IN \A c \in cuts \ {Len(s) + 1} :
           LET d == CHOOSE e \in cuts : e > c /\ \A f \in cuts : f > c => e <= f
           IN IntAt(s, c + 1, d - 1)

Recognized(s) == RangeForm(s) \/ ListForm(s)

\* C9: a run ends with exit code 0 exactly when no exception was raised and with
\* exit code 1 when one was: a run that exits 0 had an input for every
\* expression, only expressions of a recognized form, and read only bands its
\* inputs have; a run that has not ended has no exit code and no error; and a run
\* that has ended takes no further step (no retry).
C9_ExitCode ==
    /\ pc = "done" =>
          /\ exit_code \in {0, 1}
          /\ exit_code = 0 <=> error = "none"
          /\ exit_code = 1 <=> error \in {"io", "syntax", "index"}
          /\ ~ENABLED Next
    /\ pc # "done" => exit_code = -1 /\ error = "none"
    /\ exit_code = 0 =>
          /\ Len(bidx) <= Len(input)
          /\ \A k \in 1..Len(bidx) : Recognized(bidx[k])
          /\ \A k \in 1..Len(indexes) : \A m \in 1..Len(indexes[k].v) :
                band_exists(input[k], indexes[k].v[m])
          /\ Len(written) = Len(input)
    /\ error = "syntax" => ~Recognized(bidx[Len(indexes) + 1])
    /\ error = "index" =>
          \E m \in 1..Len(indexes[Len(written) + 1].v) :
              ~band_exists(input[Len(written) + 1], indexes[Len(written) + 1].v[m])

C9_Witness ==
    /\ pc = "done"
    /\ exit_code = 1
    /\ error = "index"
    /\ Len(written) = 1
    /\ dst.opened

\* C10: the output is opened for writing only after every pair's selection has
\* been resolved and the total computed, and it is opened with that total; a run
\* in which resolving a selection fails never opens the output and writes no band.
C10_TwoPhaseBarrier ==
    /\ (pc \in {"open", "copy"} \/ dst.opened \/ written # <<>>) =>
          /\ Len(indexes) = Len(Pairs)
          /\ output_count = TotalLen(indexes)
          /\ kwargs.count = output_count
    /\ dst.opened => dst.count = output_count
    /\ (error = "syntax" \/ Len(indexes) < Len(Pairs)) =>
          /\ ~dst.opened
          /\ written = <<>>
          /\ dst.bands = <<>>

C10_Witness ==
    /\ pc = "done"
    /\ error = "syntax"
    /\ Len(indexes) = 1
    /\ output_count >= 1
    /\ ~dst.opened
    /\ written = <<>>

====
